---- MODULE Spec2Model ----
(***************************************************************************)
(* Model of eva-accession-release-automation/run_release_in_embassy/       *)
(* validate_rs_release_files.py: the validation of the RS IDs of a         *)
(* release against the RS IDs held in the (temp) Mongo store, and the      *)
(* attribution of the missing IDs to four categories.                      *)
(*                                                                         *)
(* A text file is a sequence of lines, a line is a sequence of one-        *)
(* character strings.  A release input line is a sequence of tab-separated *)
(* columns.  Store records are TLA+ records; accessions are naturals.      *)
(***************************************************************************)
EXTENDS Integers, Sequences, FiniteSets, TLC

(* ------------------------------------------------------------------ *)
(* Bounds of the model                                                 *)
(* ------------------------------------------------------------------ *)

\* RS accessions of the model are 1..MaxId.
MaxId == 2

\* read_next_batch_of_missing_ids reads num_lines_to_read lines per batch
\* (1000 in the source, scaled down here so that several batches happen).
num_lines_to_read == 1

IDs == 1..MaxId

(* ------------------------------------------------------------------ *)
(* Text: characters, lines, conversions                                *)
(* ------------------------------------------------------------------ *)

Digits == <<"0", "1", "2", "3", "4", "5", "6", "7", "8", "9">>

IsDigit(c) == \E i \in 1..10 : Digits[i] = c

DigitVal(c) == (CHOOSE i \in 1..10 : Digits[i] = c) - 1

\* Byte value of a character (the collation order of sort and comm).
Ord(c) ==
    IF IsDigit(c) THEN 48 + DigitVal(c)
    ELSE CASE c = "\t" -> 9
           [] c = "#" -> 35
           [] c = "X" -> 88
           [] c = "Y" -> 89
           [] c = "Z" -> 90
           [] c = "r" -> 114
           [] c = "s" -> 115
           [] OTHER -> 127

\* str(n) of a natural number: its decimal digits.
RECURSIVE Str(_)
Str(n) == IF n < 10 THEN <<Digits[n + 1]>> ELSE Str(n \div 10) \o <<Digits[(n % 10) + 1]>>

\* int(line.strip()) of a line of decimal digits (leading zeros are dropped).
RECURSIVE ToInt(_)
ToInt(line) ==
    IF line = <<>> THEN 0
    ELSE 10 * ToInt(SubSeq(line, 1, Len(line) - 1)) + DigitVal(line[Len(line)])

\* grep -E "^[0-9]+$": a non-empty line of decimal digits.
IsNumericLine(line) == Len(line) > 0 /\ \A i \in 1..Len(line) : IsDigit(line[i])

\* sed s/rs//g on one line: every occurrence of "rs" is removed, left to right.
RECURSIVE SedStripRs(_)
SedStripRs(line) ==
    IF Len(line) = 0 THEN <<>>
    ELSE IF Len(line) >= 2 /\ line[1] = "r" /\ line[2] = "s"
         THEN SedStripRs(SubSeq(line, 3, Len(line)))
         ELSE <<line[1]>> \o SedStripRs(Tail(line))

\* Lexicographic (byte-wise) order of two lines: a sorts before or equal to b.
RECURSIVE LineLeq(_, _)
LineLeq(a, b) ==
    IF a = <<>> THEN TRUE
    ELSE IF b = <<>> THEN FALSE
    ELSE IF Ord(a[1]) < Ord(b[1]) THEN TRUE
    ELSE IF Ord(a[1]) > Ord(b[1]) THEN FALSE
    ELSE LineLeq(Tail(a), Tail(b))

LineLess(a, b) == LineLeq(a, b) /\ a # b

\* Insert a line into a sorted file.
RECURSIVE InsertSorted(_, _)
InsertSorted(line, f) ==
    IF f = <<>> THEN <<line>>
    ELSE IF LineLeq(line, f[1]) THEN <<line>> \o f
    ELSE <<f[1]>> \o InsertSorted(line, Tail(f))

\* sort: the lines of a file in byte order, duplicates kept.
RECURSIVE Sort(_)
Sort(f) == IF f = <<>> THEN <<>> ELSE InsertSorted(f[1], Sort(Tail(f)))

\* uniq: adjacent equal lines collapse into one.
RECURSIVE Uniq(_)
Uniq(f) ==
    IF Len(f) <= 1 THEN f
    ELSE IF f[1] = f[2] THEN Uniq(Tail(f))
    ELSE <<f[1]>> \o Uniq(Tail(f))

\* comm on two sorted files, one line pairing with one line: the lines only in a.
RECURSIVE CommOnlyFirst(_, _)
CommOnlyFirst(a, b) ==
    IF a = <<>> THEN <<>>
    ELSE IF b = <<>> THEN a
    ELSE IF a[1] = b[1] THEN CommOnlyFirst(Tail(a), Tail(b))
    ELSE IF LineLess(a[1], b[1]) THEN <<a[1]>> \o CommOnlyFirst(Tail(a), b)
    ELSE CommOnlyFirst(a, Tail(b))

\* Comm31 with the flags mixed up (comm -23): the lines only in FILE1.
Comm31_Swapped(file1, file2) == CommOnlyFirst(file1, file2)

\* comm -31 FILE1 FILE2: columns 1 (only in FILE1) and 3 (common) are
\* suppressed, what is printed is column 2, the lines only in FILE2.
Comm31(file1, file2) == CommOnlyFirst(file2, file1)

\* The lines of a file as a set.
LinesOf(f) == {f[i] : i \in 1..Len(f)}

\* The lines of a file that satisfy a test, in order.
RECURSIVE GrepNumeric(_)
GrepNumeric(f) ==
    IF f = <<>> THEN <<>>
    ELSE IF IsNumericLine(f[1]) THEN <<f[1]>> \o GrepNumeric(Tail(f))
    ELSE GrepNumeric(Tail(f))


\* The lines of a set of lines as a file, in sorted order.
RECURSIVE FileOfSet(_)
FileOfSet(S) ==
    IF S = {} THEN <<>>
    ELSE LET x == CHOOSE y \in S : \A z \in S : LineLeq(y, z)
         IN <<x>> \o FileOfSet(S \ {x})

(* ------------------------------------------------------------------ *)
(* The release files: gzipped, tab-separated, line-oriented            *)
(* ------------------------------------------------------------------ *)

\* A line of a release file is the sequence of its tab-separated columns.
\* The text of the line: cut prints a line that holds no tab as it is.
RECURSIVE JoinTabs(_)
JoinTabs(cols) ==
    IF Len(cols) = 0 THEN <<>>
    ELSE IF Len(cols) = 1 THEN cols[1]
    ELSE cols[1] \o <<"\t">> \o JoinTabs(Tail(cols))

\* cut -fN of one line.
Cut(cols, n) ==
    IF Len(cols) <= 1 THEN JoinTabs(cols)
    ELSE IF n <= Len(cols) THEN cols[n] ELSE <<>>

\* grep -v ^#: the line does not start with '#'.
NotHeader(cols) == LET text == JoinTabs(cols) IN ~(Len(text) > 0 /\ text[1] = "#")

\* zcat F | grep -v ^# | cut -f3 | sed s/rs//g
RECURSIVE VcfIds(_)
VcfIds(f) ==
    IF f = <<>> THEN <<>>
    ELSE IF NotHeader(f[1]) THEN <<SedStripRs(Cut(f[1], 3))>> \o VcfIds(Tail(f))
    ELSE VcfIds(Tail(f))

\* zcat F | cut -fN | sed s/rs//g
RECURSIVE ColumnIds(_, _)
ColumnIds(f, n) ==
    IF f = <<>> THEN <<>>
    ELSE <<SedStripRs(Cut(f[1], n))>> \o ColumnIds(Tail(f), n)

\* zcat F | sed s/rs//g
RECURSIVE WholeLineIds(_)
WholeLineIds(f) ==
    IF f = <<>> THEN <<>>
    ELSE <<SedStripRs(JoinTabs(f[1]))>> \o WholeLineIds(Tail(f))

\* Lines of the release inputs of the model.
RsToken(n) == <<"r", "s">> \o Str(n)
VcfHeader == << <<"#", "X">>, <<"1">>, <<"r", "s", "1">> >>
VcfLine(token) == << <<"X">>, <<"1">>, token >>
MalformedToken == <<"r", "s", "X", "Y", "Z">>

(* ------------------------------------------------------------------ *)
(* The store: the collections of the temp Mongo database               *)
(* ------------------------------------------------------------------ *)

sve_collection_name == "submittedVariantEntity"
svoe_collection_name == "submittedVariantOperationEntity"
dbsnp_sve_collection_name == "dbsnpSubmittedVariantEntity"
dbsnp_svoe_collection_name == "dbsnpSubmittedVariantOperationEntity"
cve_collection_name == "clusteredVariantEntity"
dbsnp_cve_collection_name == "dbsnpClusteredVariantEntity"
cvoe_collection_name == "clusteredVariantOperationEntity"
dbsnp_cvoe_collection_name == "dbsnpClusteredVariantOperationEntity"

Collections ==
    {sve_collection_name, svoe_collection_name, dbsnp_sve_collection_name,
     dbsnp_svoe_collection_name, cve_collection_name, dbsnp_cve_collection_name,
     cvoe_collection_name, dbsnp_cvoe_collection_name}

\* The collections mongoexport is run on, in the order of the loop.
ExportedCollections ==
    <<cve_collection_name, cvoe_collection_name,
      dbsnp_cve_collection_name, dbsnp_cvoe_collection_name>>

\* Records of the submitted-variant operation collections.  declustered: the
\* reason matches ^Declustered.*; nonNuc: the $or clause on ref and alt holds.
RsLists == {<<i>> : i \in IDs} \cup {l \in IDs \X IDs : l[1] # l[2]}
SvoeRecords ==
    {[eventType |-> "MERGED", declustered |-> FALSE, nonNuc |-> FALSE, inactiveRs |-> l] : l \in RsLists}
    \cup {[eventType |-> "UPDATED", declustered |-> TRUE, nonNuc |-> FALSE, inactiveRs |-> l] : l \in RsLists}
    \cup {[eventType |-> "UPDATED", declustered |-> FALSE, nonNuc |-> TRUE, inactiveRs |-> l] : l \in RsLists}
CveRecords == [accession : IDs, type : {"TANDEM_REPEAT", "SNV"}]
SveRecords == [rs : IDs, nonNuc : BOOLEAN]
CvoeRecords == [accession : IDs]

\* A record of the model placed in one collection.
RecordPool ==
    ({dbsnp_svoe_collection_name, svoe_collection_name} \X SvoeRecords)
    \cup ({dbsnp_cve_collection_name, cve_collection_name} \X CveRecords)
    \cup ({dbsnp_sve_collection_name, sve_collection_name} \X SveRecords)

\* The attribution collections of a store of the model hold at most two
\* records together: none, one or a pair of the pool.
PlacedRecords == {{}} \cup {{a, b} : a \in RecordPool, b \in RecordPool}

\* The store that holds the placed records and the given accessions in
\* dbsnpClusteredVariantOperationEntity.
StoreOf(placed, dbsnpCvoe, cvoe) ==
    [c \in Collections |->
        IF c = dbsnp_cvoe_collection_name THEN {[accession |-> a] : a \in dbsnpCvoe}
        ELSE IF c = cvoe_collection_name THEN {[accession |-> a] : a \in cvoe}
        ELSE {p[2] : p \in {q \in placed : q[1] = c}}]


(* ------------------------------------------------------------------ *)
(* The files the program writes                                        *)
(* ------------------------------------------------------------------ *)

\* An absent file and an empty one are not told apart: no command of the
\* program distinguishes them (rm -f, >>, >, cp, open(.., "w")).
FileNames ==
    {"mongo_unique_rs_ids", "all_ids", "unique_ids", "missing_ids", "rs_still_missing",
     "rs_with_merged_ss_parents", "rs_with_declustered_ss_parents",
     "rs_with_tandem_repeat_type", "rs_with_non_nucleotide_letters_SVE",
     "rs_with_non_nucleotide_letters_SVOE", "rs_with_non_nucleotide_letters"}

\* The csv field mongoexport prints for a document: its accession, nothing
\* when the document has no such field.
AccessionField(r) == IF "accession" \in DOMAIN r THEN Str(r.accession) ELSE <<>>

\* mongoexport --fields accession --type csv --noHeaderLine: one line per record.
ExportLines(records) == FileOfSet({AccessionField(r) : r \in records})

\* The export loop: every mongoexport writes --out to the same file, which
\* it creates anew; then sort -u -o on that file.
RECURSIVE ExportLoop(_, _, _)
ExportLoop(st, collections, file) ==
    IF collections = <<>> THEN file
    ELSE ExportLoop(st, Tail(collections), ExportLines(st[collections[1]]))

export_unique_rs_ids_from_mongo(st, file) ==
    Uniq(Sort(ExportLoop(st, ExportedCollections, file)))

\* RemoveFile with a fault: the file is left as it was.
RemoveFile_Skipped(file) == file

\* rm -f FILE: the file is absent afterwards.
RemoveFile(file) == <<>>

\* What the six appending commands (>>) add to the all-IDs file, in order.
AllIdsFile(rel) ==
    VcfIds(rel.active) \o VcfIds(rel.merged) \o VcfIds(rel.multimap)
    \o ColumnIds(rel.merged_deprecated, 1) \o ColumnIds(rel.merged_deprecated, 2)
    \o WholeLineIds(rel.deprecated)

\* generate_unique_rs_ids_file: rm -f of the two files, the six commands
\* that append to the all-IDs file, then sort all_ids | uniq >> unique_ids.
\* The contents of the two files afterwards.
generate_unique_rs_ids_file(rel, all_ids_file, unique_ids_file) ==
    LET all == RemoveFile(all_ids_file) \o AllIdsFile(rel)
    IN [all_ids |-> all,
        unique_ids |-> RemoveFile(unique_ids_file) \o Uniq(Sort(all))]

\* diff_release_ids_against_mongo_rs_ids with a fault: the grep step is
\* left out.
diff_without_grep(unique_release_ids_file, unique_mongo_ids_file) ==
    Comm31(unique_release_ids_file, unique_mongo_ids_file)

\* diff_release_ids_against_mongo_rs_ids with a fault: the comm step is
\* left out, the numeric lines of the Mongo file are written.
diff_without_comm(unique_release_ids_file, unique_mongo_ids_file) ==
    GrepNumeric(unique_mongo_ids_file)

\* comm -31 release mongo | grep -E "^[0-9]+$" | cat > missing
diff_release_ids_against_mongo_rs_ids(unique_release_ids_file, unique_mongo_ids_file) ==
    GrepNumeric(Comm31(unique_release_ids_file, unique_mongo_ids_file))

\* read_next_batch_of_missing_ids with a fault: every batch is read from
\* the start of the file again.
read_next_batch_from_start(file, pos) ==
    SubSeq(file, 1, IF Len(file) - pos < num_lines_to_read
                    THEN Len(file) - pos ELSE num_lines_to_read)

\* read_next_batch_of_missing_ids with a fault: a batch holds one line more
\* than num_lines_to_read.
read_next_batch_over_limit(file, pos) ==
    SubSeq(file, pos + 1, IF pos + num_lines_to_read + 1 < Len(file)
                          THEN pos + num_lines_to_read + 1 ELSE Len(file))

\* itertools.islice(handle, num_lines_to_read): the next lines of the open file.
read_next_batch_of_missing_ids(file, pos) ==
    SubSeq(file, pos + 1, IF pos + num_lines_to_read < Len(file)
                          THEN pos + num_lines_to_read ELSE Len(file))

\* [int(line.strip()) for line in lines]
BatchIds(lines) == [i \in 1..Len(lines) |-> ToInt(lines[i])]

(* ------------------------------------------------------------------ *)
(* The aggregation pipelines and the five evaluations                  *)
(* ------------------------------------------------------------------ *)

get_merged_ss_query == "get_merged_ss_query"
get_declustered_ss_query == "get_declustered_ss_query"
get_tandem_repeat_rs_query == "get_tandem_repeat_rs_query"
get_rs_with_non_nucleotide_letters_query_SVE == "get_rs_with_non_nucleotide_letters_query_SVE"
get_rs_with_non_nucleotide_letters_query_SVOE == "get_rs_with_non_nucleotide_letters_query_SVOE"

Pipelines ==
    {get_merged_ss_query, get_declustered_ss_query, get_tandem_repeat_rs_query,
     get_rs_with_non_nucleotide_letters_query_SVE,
     get_rs_with_non_nucleotide_letters_query_SVOE}

\* The calls of get_ids_from_mongo_for_category, in the order they are made.
Evaluations ==
    << [category |-> "rs_with_merged_ss_parents", query |-> get_merged_ss_query,
        path |-> "inactiveObjects.rs",
        collections |-> <<dbsnp_svoe_collection_name, svoe_collection_name>>],
       [category |-> "rs_with_declustered_ss_parents", query |-> get_declustered_ss_query,
        path |-> "inactiveObjects.rs",
        collections |-> <<dbsnp_svoe_collection_name, svoe_collection_name>>],
       [category |-> "rs_with_tandem_repeat_type", query |-> get_tandem_repeat_rs_query,
        path |-> "accession",
        collections |-> <<dbsnp_cve_collection_name, cve_collection_name>>],
       [category |-> "rs_with_non_nucleotide_letters_SVE",
        query |-> get_rs_with_non_nucleotide_letters_query_SVE,
        path |-> "rs",
        collections |-> <<dbsnp_sve_collection_name, sve_collection_name>>],
       [category |-> "rs_with_non_nucleotide_letters_SVOE",
        query |-> get_rs_with_non_nucleotide_letters_query_SVOE,
        path |-> "inactiveObjects.rs",
        collections |-> <<dbsnp_svoe_collection_name, svoe_collection_name>>] >>

\* "inactiveObjects" in rs_id_attribute_path
IsArrayPath(path) == path = "inactiveObjects.rs"

InSet(inList) == {inList[i] : i \in 1..Len(inList)}

\* An array field matches $in when one of its elements is in the list.
AnyInactiveIn(r, inList) == \E i \in 1..Len(r.inactiveRs) : r.inactiveRs[i] \in InSet(inList)

\* The $match stage of each pipeline, with its $in list.
MatchStage(query, r, inList) ==
    CASE query = get_merged_ss_query ->
            r.eventType = "MERGED" /\ AnyInactiveIn(r, inList)
      [] query = get_declustered_ss_query ->
            r.eventType = "UPDATED" /\ r.declustered /\ AnyInactiveIn(r, inList)
      [] query = get_tandem_repeat_rs_query ->
            r.type = "TANDEM_REPEAT" /\ r.accession \in InSet(inList)
      [] query = get_rs_with_non_nucleotide_letters_query_SVE ->
            r.rs \in InSet(inList) /\ r.nonNuc
      [] query = get_rs_with_non_nucleotide_letters_query_SVOE ->
            AnyInactiveIn(r, inList) /\ r.nonNuc

\* The first $project stage: the value of "accession" (an array of the rs of
\* the inactive objects on the inactiveObjects paths).
ProjectStage(query, r) ==
    CASE query = get_tandem_repeat_rs_query -> r.accession
      [] query = get_rs_with_non_nucleotide_letters_query_SVE -> r.rs
      [] OTHER -> r.inactiveRs

\* collection.aggregate(pipeline): $match, $project, then $group with
\* $addToSet, $unwind and $project give each distinct projected value once.
Aggregate(query, records, inList) ==
    {ProjectStage(query, r) : r \in {x \in records : MatchStage(query, x, inList)}}

\* str(elem["accession"][0]) on an array path, str(elem["accession"]) otherwise.
ResultLine(path, value) == IF IsArrayPath(path) THEN Str(value[1]) ELSE Str(value)

\* lines_to_write of one aggregate call.  The order of the results of a
\* $group is not specified; every reader of the output file sorts it first,
\* the lines are given here in sorted order.
RECURSIVE LinesOfValues(_, _)
LinesOfValues(path, values) ==
    IF values = {} THEN <<>>
    ELSE LET v == CHOOSE x \in values : TRUE
         IN <<ResultLine(path, v)>> \o LinesOfValues(path, values \ {v})

lines_to_write(eval, records, inList) ==
    Sort(LinesOfValues(eval.path, Aggregate(eval.query, records, inList)))

\* file_diff(a, b, FileDiffOption.NOT_IN) of ebi_eva_common_pyutils on two
\* sorted files: the lines of a that are not in b (comm -23).
file_diff_NOT_IN(a, b) == CommOnlyFirst(a, b)

\* get_residual_missing_rs_ids_file with a fault: nothing is subtracted.
get_residual_without_diff(rs_still_missing, attributed) == Sort(rs_still_missing)

\* get_residual_missing_rs_ids_file with a fault: the attributed IDs are
\* added to the residual file.
get_residual_with_attributed_added(rs_still_missing, attributed) ==
    Sort(rs_still_missing \o attributed)

\* get_residual_missing_rs_ids_file: sort both files in place, diff, move the
\* result over the residual file.  The new contents of the residual file.
get_residual_missing_rs_ids_file(rs_still_missing, attributed) ==
    file_diff_NOT_IN(Sort(rs_still_missing), Sort(attributed))

\* ConcatenateSveSvoe with a fault: the uniq step is left out.
ConcatenateWithoutUniq(sveFile, svoeFile) == Sort(sveFile \o svoeFile)

\* (cat SVE SVOE | sort | uniq > final)
ConcatenateSveSvoe(sveFile, svoeFile) == Uniq(Sort(sveFile \o svoeFile))

\* num_unattributed_missing_rs_ids with a fault: the lines of the last
\* output file are counted.
num_unattributed_wrong_file(files) == Len(files["rs_with_non_nucleotide_letters"])

\* wc -l < missing_ids_file in get_missing_ids_attributions.
num_unattributed_missing_rs_ids(files) == Len(files["missing_ids"])

\* OpenForWriting with a fault: the file is opened for appending.
OpenForAppending(file) == file

\* open(output_file, "w"): the file is created or truncated.
OpenForWriting(file) == <<>>

\* sys.exit(code): the exit status the parent process sees.
SysExitStatus(code) == code % 256

\* The exit status of an interpreter that ends on an uncaught exception.
UncaughtExceptionStatus == 1


(* ------------------------------------------------------------------ *)
(* State                                                               *)
(* ------------------------------------------------------------------ *)

VARIABLES
    store,          \* the collections of the store (read only)
    release,        \* the five release files (read only)
    fs,             \* the contents of the files the program writes
    pc,             \* the position of validate_rs_release_files
    step,           \* index in Evaluations of the current evaluation, 0 before
    handlePos,      \* lines of the residual file the open handle has read
    batch,          \* the lines of the current batch
    collIdx,        \* index of the next collection to query for the batch
    inLists,        \* the $in list of each module-level pipeline
    queries,        \* the aggregate calls made so far
    completed,      \* the output files finished so far, in order
    locals,         \* exit_code and port_forwarding_process_id: {} when unbound
    raised,         \* the exception raised, {} when none
    loggedSuccess,  \* "All missing RS IDs have been accounted for!" was logged
    closeCalls,     \* calls of close_mongo_port_to_tempmongo
    exitStatus,     \* the exit status of the process, {} while it runs
    previous,       \* what an earlier run on the same inputs left, {} when none
    ftp,            \* publish_release_files_to_ftp: its position and the folders
    linear          \* cluster_from_mongo: the linear pipeline and its execution

vars ==
    <<store, release, previous, ftp, linear, fs, pc, step, handlePos, batch, collIdx, inLists, queries,
      completed, locals, raised, loggedSuccess, closeCalls, exitStatus>>

\* What a run of validate_rs_release_files reads and never writes, and the
\* state of the other programs, which it does not touch.
inputs == <<store, release, previous, ftp, linear>>
loopVars == <<step, handlePos, batch, collIdx, inLists, queries, completed>>
endVars == <<locals, raised, loggedSuccess, closeCalls, exitStatus>>

EmptyRelease ==
    [active |-> <<>>, merged |-> <<>>, multimap |-> <<>>,
     merged_deprecated |-> <<>>, deprecated |-> <<>>]

\* Release files of the runs that explore the store: a header, no ID.
StoreRunReleases ==
    {[EmptyRelease EXCEPT !.active = <<VcfHeader>>]}

Stores ==
    {StoreOf(placed, dbsnpCvoe, {}) : placed \in PlacedRecords, dbsnpCvoe \in SUBSET IDs}

\* publish_release_files_to_ftp is not running.
FtpIdle == [pc |-> "idle"]

\* cluster_from_mongo is not running.
LinearIdle == [pc |-> "idle"]

\* validate_rs_release_files before its first statement.
InitValidation ==
    /\ previous = {}
    /\ fs = [f \in FileNames |-> <<>>]
    /\ pc = "open_port"
    /\ step = 0
    /\ handlePos = 0
    /\ batch = <<>>
    /\ collIdx = 0
    /\ inLists = [q \in Pipelines |-> <<>>]
    /\ queries = <<>>
    /\ completed = <<>>
    /\ locals = [exit_code |-> {}, port_forwarding_process_id |-> {}]
    /\ raised = {}
    /\ loggedSuccess = FALSE
    /\ closeCalls = 0
    /\ exitStatus = {}

InitProgram ==
    /\ InitValidation
    /\ ftp = FtpIdle
    /\ linear = LinearIdle

Init ==
    /\ store \in Stores
    /\ release \in StoreRunReleases
    /\ InitProgram

(* ------------------------------------------------------------------ *)
(* validate_rs_release_files                                           *)
(* ------------------------------------------------------------------ *)

\* An exception raised inside the try block is handled by the except clause.
Raise(kind, count, file) ==
    /\ raised' = {[kind |-> kind, count |-> count, file |-> file]}
    /\ pc' = "except"

\* open_mongo_port_to_tempmongo returns the process id and the port.
OpenPort ==
    /\ pc = "open_port"
    /\ locals' = [locals EXCEPT !.port_forwarding_process_id = {"pid"}]
    /\ pc' = "export"
    /\ UNCHANGED <<inputs, fs, loopVars, raised, loggedSuccess, closeCalls, exitStatus>>

\* open_mongo_port_to_tempmongo raises: nothing is bound.
OpenPortFails ==
    /\ pc = "open_port"
    /\ Raise("PortError", 0, "")
    /\ UNCHANGED <<inputs, fs, loopVars, locals, loggedSuccess, closeCalls, exitStatus>>

\* export_unique_rs_ids_from_mongo
ExportFromMongo ==
    /\ pc = "export"
    /\ fs' = [fs EXCEPT !["mongo_unique_rs_ids"] =
                export_unique_rs_ids_from_mongo(store, fs["mongo_unique_rs_ids"])]
    /\ pc' = "generate"
    /\ UNCHANGED <<inputs, loopVars, endVars>>

\* mongoexport fails: run_command_with_output raises.
ExportFails ==
    /\ pc = "export"
    /\ Raise("StoreError", 0, "mongo_unique_rs_ids")
    /\ UNCHANGED <<inputs, fs, loopVars, locals, loggedSuccess, closeCalls, exitStatus>>

\* generate_unique_rs_ids_file
GenerateUniqueIds ==
    /\ pc = "generate"
    /\ LET files == generate_unique_rs_ids_file(release, fs["all_ids"], fs["unique_ids"])
       IN fs' = [fs EXCEPT !["all_ids"] = files.all_ids,
                           !["unique_ids"] = files.unique_ids]
    /\ pc' = "diff"
    /\ UNCHANGED <<inputs, loopVars, endVars>>

\* diff_release_ids_against_mongo_rs_ids
Diff ==
    /\ pc = "diff"
    /\ fs' = [fs EXCEPT !["missing_ids"] =
                diff_release_ids_against_mongo_rs_ids(fs["unique_ids"],
                                                      fs["mongo_unique_rs_ids"])]
    /\ pc' = "attribute"
    /\ UNCHANGED <<inputs, loopVars, endVars>>


(* ------------------------------------------------------------------ *)
(* get_missing_ids_attributions                                        *)
(* ------------------------------------------------------------------ *)

\* AttributeInit with a fault: attribution starts before the diff is run.
AttributeInit_BeforeDiff ==
    /\ pc = "diff"
    /\ fs' = [fs EXCEPT !["rs_still_missing"] = fs["missing_ids"]]
    /\ step' = 1
    /\ pc' = "eval_open"
    /\ UNCHANGED <<inputs, handlePos, batch, collIdx, inLists, queries, completed, endVars>>

\* cp missing_ids_file rs_still_missing_file, then the first evaluation.
AttributeInit ==
    /\ pc = "attribute"
    /\ fs' = [fs EXCEPT !["rs_still_missing"] = fs["missing_ids"]]
    /\ step' = 1
    /\ pc' = "eval_open"
    /\ UNCHANGED <<inputs, handlePos, batch, collIdx, inLists, queries, completed, endVars>>

\* get_ids_from_mongo_for_category opens the residual file for reading and
\* the output file for writing.
EvalOpen ==
    /\ pc = "eval_open"
    /\ fs' = [fs EXCEPT ![Evaluations[step].category] = OpenForWriting(@)]
    /\ handlePos' = 0
    /\ pc' = "read_batch"
    /\ UNCHANGED <<inputs, step, batch, collIdx, inLists, queries, completed, endVars>>

\* ReadBatch with a fault: the IDs of the batch are added to the $in list
\* the pipeline holds.
ReadBatch_ExtendsInList ==
    /\ pc = "read_batch"
    /\ handlePos < Len(fs["rs_still_missing"])
    /\ LET lines == read_next_batch_of_missing_ids(fs["rs_still_missing"], handlePos)
       IN /\ inLists' = [inLists EXCEPT ![Evaluations[step].query] = @ \o BatchIds(lines)]
          /\ batch' = lines
          /\ handlePos' = handlePos + Len(lines)
          /\ collIdx' = 1
          /\ pc' = "query"
    /\ UNCHANGED <<inputs, fs, step, queries, completed, endVars>>

\* The next batch is not empty: its IDs become the $in list of the pipeline.
\* int() raises ValueError on a line that is no number.
ReadBatch ==
    /\ pc = "read_batch"
    /\ handlePos < Len(fs["rs_still_missing"])
    /\ LET lines == read_next_batch_of_missing_ids(fs["rs_still_missing"], handlePos)
       IN IF \A i \in 1..Len(lines) : IsNumericLine(lines[i])
          THEN /\ inLists' = [inLists EXCEPT ![Evaluations[step].query] = BatchIds(lines)]
               /\ batch' = lines
               /\ handlePos' = handlePos + Len(lines)
               /\ collIdx' = 1
               /\ pc' = "query"
               /\ UNCHANGED raised
          ELSE /\ Raise("ValueError", 0, "rs_still_missing")
               /\ UNCHANGED <<inLists, batch, handlePos, collIdx>>
    /\ UNCHANGED <<inputs, fs, step, queries, completed, locals, loggedSuccess,
                   closeCalls, exitStatus>>

\* AfterEvaluation with a fault: the declustered evaluation is skipped.
AfterEvaluation_SkipsDeclustered(n) ==
    CASE n = 1 -> [pc |-> "residual", step |-> 2]
      [] n <= 3 -> [pc |-> "residual", step |-> n]
      [] n = 4 -> [pc |-> "eval_open", step |-> 5]
      [] OTHER -> [pc |-> "concat", step |-> n]

\* What follows the return of evaluation number n: the residual is reduced
\* after the first three; the SVOE evaluation follows the SVE one; the
\* concatenation follows the SVOE one.
AfterEvaluation(n) ==
    CASE n <= 3 -> [pc |-> "residual", step |-> n]
      [] n = 4 -> [pc |-> "eval_open", step |-> 5]
      [] OTHER -> [pc |-> "concat", step |-> n]

\* The batches are exhausted: the files are closed, the output file returned.
EvalReturn ==
    /\ pc = "read_batch"
    /\ handlePos >= Len(fs["rs_still_missing"])
    /\ completed' = Append(completed, Evaluations[step].category)
    /\ pc' = AfterEvaluation(step).pc
    /\ step' = AfterEvaluation(step).step
    /\ UNCHANGED <<inputs, fs, handlePos, batch, collIdx, inLists, queries, endVars>>

\* AfterQuery with a fault: only the first collection is queried per batch.
AfterQuery_FirstCollectionOnly(i, eval) == [pc |-> "read_batch", collIdx |-> 0]

\* Where the loop goes after the aggregate call on collection number i.
AfterQuery(i, eval) ==
    IF i < Len(eval.collections)
    THEN [pc |-> "query", collIdx |-> i + 1]
    ELSE [pc |-> "read_batch", collIdx |-> 0]

\* One collection_handle.aggregate call and the writelines of its results.
Query ==
    /\ pc = "query"
    /\ LET eval == Evaluations[step]
           coll == eval.collections[collIdx]
       IN /\ fs' = [fs EXCEPT ![eval.category] =
                        @ \o lines_to_write(eval, store[coll], inLists[eval.query])]
          /\ queries' = Append(queries, [step |-> step, collection |-> coll,
                                         ids |-> inLists[eval.query], batch |-> batch])
          /\ pc' = AfterQuery(collIdx, eval).pc
          /\ collIdx' = AfterQuery(collIdx, eval).collIdx
    /\ UNCHANGED <<inputs, step, handlePos, batch, inLists, completed, endVars>>

\* QueryErrorTarget with a fault: the error is swallowed and the loop goes on.
QueryErrorSwallowed == "read_batch"

\* Where control goes when an aggregate call raises: nothing between the
\* call and the except clause of validate_rs_release_files handles it.
QueryErrorTarget == "except"

\* The aggregate call raises (an error of the store, a timeout).
QueryFails ==
    /\ pc = "query"
    /\ raised' = {[kind |-> "StoreError", count |-> 0, file |-> Evaluations[step].category]}
    /\ pc' = QueryErrorTarget
    /\ collIdx' = IF QueryErrorTarget = "except" THEN collIdx
                  ELSE AfterQuery(collIdx, Evaluations[step]).collIdx
    /\ UNCHANGED <<inputs, fs, step, handlePos, batch, inLists, queries, completed,
                   locals, loggedSuccess, closeCalls, exitStatus>>

\* get_residual_missing_rs_ids_file, then the next evaluation.
ResidualStep ==
    /\ pc = "residual"
    /\ LET attributed == Evaluations[step].category
       IN fs' = [fs EXCEPT !["rs_still_missing"] =
                        get_residual_missing_rs_ids_file(fs["rs_still_missing"], fs[attributed]),
                           ![attributed] = Sort(fs[attributed])]
    /\ step' = step + 1
    /\ pc' = "eval_open"
    /\ UNCHANGED <<inputs, handlePos, batch, collIdx, inLists, queries, completed, endVars>>

\* get_rs_with_non_nucleotide_letters concatenates the SVE and SVOE results.
Concatenate ==
    /\ pc = "concat"
    /\ fs' = [fs EXCEPT !["rs_with_non_nucleotide_letters"] =
                ConcatenateSveSvoe(fs["rs_with_non_nucleotide_letters_SVE"],
                                   fs["rs_with_non_nucleotide_letters_SVOE"])]
    /\ completed' = Append(completed, "rs_with_non_nucleotide_letters")
    /\ pc' = "count"
    /\ UNCHANGED <<inputs, step, handlePos, batch, collIdx, inLists, queries, endVars>>

\* The count of the unattributed IDs and the verdict.
CountUnattributed ==
    /\ pc = "count"
    /\ LET n == num_unattributed_missing_rs_ids(fs)
       IN IF n > 0
          THEN /\ Raise("Exception", n, "rs_still_missing")
               /\ UNCHANGED loggedSuccess
          ELSE /\ loggedSuccess' = TRUE
               /\ pc' = "finally"
               /\ UNCHANGED raised
    /\ UNCHANGED <<inputs, fs, loopVars, locals, closeCalls, exitStatus>>

(* ------------------------------------------------------------------ *)
(* except and finally of validate_rs_release_files                     *)
(* ------------------------------------------------------------------ *)

\* except Exception: the error is logged, exit_code = -1.
Except ==
    /\ pc = "except"
    /\ locals' = [locals EXCEPT !.exit_code = {0 - 1}]
    /\ pc' = "finally"
    /\ UNCHANGED <<inputs, fs, loopVars, raised, loggedSuccess, closeCalls, exitStatus>>

\* ClosePort with a fault: the port is closed only when nothing was raised.
ClosePort_OnlyOnSuccess ==
    /\ pc = "finally"
    /\ closeCalls' = IF raised = {} THEN closeCalls + 1 ELSE closeCalls
    /\ pc' = "finally_exit"
    /\ UNCHANGED <<inputs, fs, loopVars, locals, raised, loggedSuccess, exitStatus>>

\* finally: close_mongo_port_to_tempmongo(port_forwarding_process_id).  A
\* name that was never bound raises out of the finally block, and the
\* interpreter ends on the uncaught exception.
ClosePort ==
    /\ pc = "finally"
    /\ IF locals.port_forwarding_process_id = {}
       THEN /\ exitStatus' = {UncaughtExceptionStatus}
            /\ pc' = "exited"
            /\ UNCHANGED closeCalls
       ELSE /\ closeCalls' = closeCalls + 1
            /\ pc' = "finally_exit"
            /\ UNCHANGED exitStatus
    /\ UNCHANGED <<inputs, fs, loopVars, locals, raised, loggedSuccess>>

\* finally: logger.info(... + str(exit_code)); sys.exit(exit_code).
\* exit_code is assigned in the except clause only.
Exit ==
    /\ pc = "finally_exit"
    /\ exitStatus' = IF locals.exit_code = {}
                     THEN {UncaughtExceptionStatus}
                     ELSE {SysExitStatus(CHOOSE c \in locals.exit_code : TRUE)}
    /\ pc' = "exited"
    /\ UNCHANGED <<inputs, fs, loopVars, locals, raised, loggedSuccess, closeCalls>>

Next ==
    \/ OpenPort
    \/ OpenPortFails
    \/ ExportFromMongo
    \/ ExportFails
    \/ GenerateUniqueIds
    \/ Diff
    \/ AttributeInit
    \/ EvalOpen
    \/ ReadBatch
    \/ EvalReturn
    \/ Query
    \/ QueryFails
    \/ ResidualStep
    \/ Concatenate
    \/ CountUnattributed
    \/ Except
    \/ ClosePort
    \/ Exit

Spec == Init /\ [][Next]_vars


(* ------------------------------------------------------------------ *)
(* Runs that explore the release files                                 *)
(* ------------------------------------------------------------------ *)

\* One VCF line per ID of S, in ascending order.
RECURSIVE IdLines(_)
IdLines(S) ==
    IF S = {} THEN <<>>
    ELSE LET m == CHOOSE x \in S : \A y \in S : x <= y
         IN <<VcfLine(RsToken(m))>> \o IdLines(S \ {m})

\* An active-IDs file: the header, the IDs of S, and a malformed line or not.
ActiveFile(S, malformed) ==
    <<VcfHeader>> \o IdLines(S)
    \o (IF malformed THEN <<VcfLine(MalformedToken)>> ELSE <<>>)

ReleaseRunReleases ==
    {[active |-> ActiveFile(S, m),
      merged |-> mg,
      multimap |-> mm,
      merged_deprecated |-> md,
      deprecated |-> dp] :
        S \in SUBSET IDs, m \in BOOLEAN,
        mg \in {<<>>, <<VcfLine(RsToken(1)), VcfLine(RsToken(1))>>},
        mm \in {<<>>, <<VcfHeader, VcfLine(RsToken(MaxId))>>},
        md \in {<<>>, << <<RsToken(1), RsToken(MaxId)>> >>},
        dp \in {<<>>, << <<RsToken(MaxId)>> >>}}

\* A document of an exported collection that has no accession field.
DocumentWithoutAccession == [eventType |-> "MERGED"]

\* The stores of these runs: any set of accessions to export, with or
\* without a document that has no accession, and one merge event.
ReleaseRunStores ==
    {[StoreOf({<<dbsnp_svoe_collection_name,
                 [eventType |-> "MERGED", declustered |-> FALSE, nonNuc |-> FALSE,
                  inactiveRs |-> <<1>>]>>}, dbsnpCvoe, {})
        EXCEPT ![dbsnp_cvoe_collection_name] = @ \cup extra] :
        dbsnpCvoe \in SUBSET IDs, extra \in {{}, {DocumentWithoutAccession}}}

InitRelease ==
    /\ store \in ReleaseRunStores
    /\ release \in ReleaseRunReleases
    /\ InitProgram

SpecRelease == InitRelease /\ [][Next]_vars

(* ------------------------------------------------------------------ *)
(* A second run on the same inputs                                     *)
(* ------------------------------------------------------------------ *)

\* What a finished run leaves: the files on disk, its log and exit status.
Outcome ==
    [fs |-> fs, raised |-> raised, loggedSuccess |-> loggedSuccess,
     exitStatus |-> exitStatus, completed |-> completed]

\* The program is started again in the same directories, on the same
\* release files and the same store: the files of the first run are there,
\* everything else starts afresh.
Rerun ==
    /\ pc = "exited"
    /\ previous = {}
    /\ previous' = {Outcome}
    /\ pc' = "open_port"
    /\ step' = 0
    /\ handlePos' = 0
    /\ batch' = <<>>
    /\ collIdx' = 0
    /\ inLists' = [q \in Pipelines |-> <<>>]
    /\ queries' = <<>>
    /\ completed' = <<>>
    /\ locals' = [exit_code |-> {}, port_forwarding_process_id |-> {}]
    /\ raised' = {}
    /\ loggedSuccess' = FALSE
    /\ closeCalls' = 0
    /\ exitStatus' = {}
    /\ UNCHANGED <<store, release, fs, ftp, linear>>

NextRerun ==
    \/ Next
    \/ Rerun

SpecRerun == InitRelease /\ [][NextRerun]_vars

(* ------------------------------------------------------------------ *)
(* Vocabulary of the properties                                        *)
(* ------------------------------------------------------------------ *)

\* The output file of each of the four categories.
CategoryFiles ==
    {"rs_with_merged_ss_parents", "rs_with_declustered_ss_parents",
     "rs_with_tandem_repeat_type", "rs_with_non_nucleotide_letters"}

\* The matched set of a category: the IDs its output file lists.
Matched(c) == LinesOf(fs[c])

MissingSet == LinesOf(fs["missing_ids"])
ResidualSet == LinesOf(fs["rs_still_missing"])

\* The four categories have been evaluated (Verified).
AllEvaluated == Len(completed) = 6

\* The verdict of get_missing_ids_attributions has been given.
VerdictGiven == AllEvaluated /\ pc \in {"except", "finally", "finally_exit", "exited"}

\* The IDs of the initial missing set that no category matched.
Unmatched == MissingSet \ UNION {Matched(c) : c \in CategoryFiles}

\* The diff has been computed.
DiffComputed == pc = "attribute" \/ step >= 1


\* A token extracted from the release files is no non-negative integer.
HasMalformedToken ==
    LET all == AllIdsFile(release)
    IN \E i \in 1..Len(all) : ~IsNumericLine(all[i])

\* An aggregate call of an evaluation has raised.
StoreQueryFailed ==
    \E e \in raised : e.kind = "StoreError" /\ e.file # "mongo_unique_rs_ids"

\* The evaluation in progress has read every batch of its candidates.
EvaluationComplete ==
    /\ pc = "read_batch"
    /\ handlePos >= Len(fs["rs_still_missing"])

\* What one query over all the candidates of the residual file would give,
\* on every collection of the evaluation.
UnboundedQueryLines(eval) ==
    UNION {LinesOf(lines_to_write(eval, store[eval.collections[i]],
                                  BatchIds(fs["rs_still_missing"]))) :
             i \in 1..Len(eval.collections)}

RECURSIVE SumOfSizes(_)
SumOfSizes(files) ==
    IF files = {} THEN 0
    ELSE LET c == CHOOSE x \in files : TRUE
         IN Cardinality(Matched(c)) + SumOfSizes(files \ {c})

(* ------------------------------------------------------------------ *)
(* Properties                                                          *)
(* ------------------------------------------------------------------ *)

\* C1 (as claimed): once the four categories are evaluated and every ID of
\* the initial missing set is matched by some category, the verdict is
\* Reported: success is logged and nothing is raised.
C1_AllAttributedIsReported ==
    (VerdictGiven /\ Unmatched = {}) => (loggedSuccess /\ raised = {})

\* C2 (as claimed): the process exits with status 0 when no step raised and
\* with a non-zero status when a step raised.
C2_ExitStatusFollowsOutcome ==
    pc = "exited" =>
        IF raised = {} THEN exitStatus = {0} ELSE (exitStatus # {} /\ 0 \notin exitStatus)

\* C3: when an ID of the initial missing set is matched by no category at
\* the verdict, get_missing_ids_attributions has raised, success is not
\* logged, and the process exits with a non-zero status.
C3_UnattributedFails ==
    (VerdictGiven /\ Unmatched # {}) =>
        /\ \E e \in raised : e.kind = "Exception"
        /\ ~loggedSuccess
        /\ pc = "exited" => (exitStatus # {} /\ 0 \notin exitStatus)

\* C3 witness: a run that ended with an unmatched ID and a raised exception.
C3_Witness ==
    /\ pc = "exited"
    /\ AllEvaluated
    /\ Unmatched # {}
    /\ \E c \in CategoryFiles : Matched(c) # {}
    /\ exitStatus = {255}

C5_SizesAddUp ==
    AllEvaluated =>
        SumOfSizes(CategoryFiles) + Cardinality(ResidualSet) = Cardinality(MissingSet)

\* C6 (as claimed): the count of the failure message is the number of IDs
\* in the residual file the message points to.
C6_CountIsResidualSize ==
    \A e \in raised : e.kind = "Exception" => e.count = Len(fs[e.file])

\* C7 (as claimed): the matched sets of two different categories are disjoint.
C7_MatchedSetsDisjoint ==
    \A c \in CategoryFiles : \A d \in CategoryFiles \ {c} : Matched(c) \cap Matched(d) = {}

\* C8 (as claimed): with a malformed token in a release input the run fails
\* with MalformedIdentifier before the diff: no diff, no attribution query.
C8_MalformedTokenFailsBeforeDiff ==
    HasMalformedToken =>
        /\ ~DiffComputed
        /\ queries = <<>>
        /\ pc = "exited" => \E e \in raised : e.kind = "MalformedIdentifier"

\* C9: once an aggregate call has raised, the run is in its error path,
\* success is never logged, the exit status is non-zero, and no further
\* query is issued, no further category completed, no file written.
C9_StoreFailureAborts ==
    /\ [](StoreQueryFailed =>
            /\ pc \in {"except", "finally", "finally_exit", "exited"}
            /\ ~loggedSuccess
            /\ pc = "exited" => (exitStatus # {} /\ 0 \notin exitStatus))
    /\ [][StoreQueryFailed => (queries' = queries /\ completed' = completed /\ fs' = fs)]_vars

\* C9 witness: a run that exited after a query of a later batch failed.
C9_Witness ==
    /\ pc = "exited"
    /\ StoreQueryFailed
    /\ Len(queries) >= 1
    /\ handlePos < Len(fs["rs_still_missing"])
    /\ exitStatus = {255}

\* C10: when an evaluation has read all its batches, the IDs of its output
\* file are those one query over all the candidates would give.
C10_BatchedEqualsUnbounded ==
    EvaluationComplete =>
        LinesOf(fs[Evaluations[step].category]) = UnboundedQueryLines(Evaluations[step])

\* C10 witness: an evaluation of more than one batch that matched an ID.
C10_Witness ==
    /\ EvaluationComplete
    /\ Len(fs["rs_still_missing"]) > num_lines_to_read
    /\ fs[Evaluations[step].category] # <<>>
    /\ LinesOf(fs[Evaluations[step].category]) # LinesOf(fs["rs_still_missing"])

\* The output file of a category is finished: its evaluation has returned
\* (the concatenation has run, for the non-nucleotide category).
OutputFinished(c) == \E i \in 1..Len(completed) : completed[i] = c

\* C11 (as claimed): the finished output file of a category lists each ID
\* at most once.
C11_NoDuplicateLines ==
    \A c \in CategoryFiles : OutputFinished(c) => Len(fs[c]) = Cardinality(Matched(c))

\* ceil(n / b)
Ceil(n, b) == (n + b - 1) \div b

\* The aggregate calls evaluation number s has made on a collection.
QueriesOf(s, coll) ==
    {i \in 1..Len(queries) : queries[i].step = s /\ queries[i].collection = coll}

\* The aggregate calls evaluation number s has made.
QueriesOfStep(s) == {i \in 1..Len(queries) : queries[i].step = s}

CompletionOrder ==
    <<"rs_with_merged_ss_parents", "rs_with_declustered_ss_parents",
      "rs_with_tandem_repeat_type", "rs_with_non_nucleotide_letters_SVE",
      "rs_with_non_nucleotide_letters_SVOE", "rs_with_non_nucleotide_letters">>

\* An evaluation is in progress.
Evaluating == pc \in {"eval_open", "read_batch", "query"}

\* C13 (as claimed): every run that reached attribution has evaluated each
\* category exactly once, in the fixed order, when it ends.
C13_EveryRunEvaluatesAll ==
    (pc = "exited" /\ step >= 1) => completed = CompletionOrder

\* C13 (amended): the categories finished so far are a prefix of the fixed
\* order (each at most once, none out of order); an evaluation in progress
\* started after all the previous ones finished and before any later one;
\* the queries reach the store in the order of the categories; a verdict is
\* given only after all of them; a run that ends with a category not
\* evaluated was aborted by an error.
C13_FixedOrderPrefix ==
    /\ Len(completed) <= Len(CompletionOrder)
    /\ completed = SubSeq(CompletionOrder, 1, Len(completed))
    /\ Evaluating => Len(completed) = step - 1
    /\ \A i \in 1..Len(queries) : \A j \in i..Len(queries) :
          queries[i].step <= queries[j].step
    /\ \A i \in 1..Len(queries) : queries[i].step <= Len(completed) + 1
    /\ (loggedSuccess \/ \E e \in raised : e.kind = "Exception")
          => completed = CompletionOrder
    /\ (pc = "exited" /\ completed # CompletionOrder)
          => (raised # {} /\ exitStatus # {0})

\* C13 witness: a run that ended after every evaluation queried the store.
C13_Witness ==
    /\ pc = "exited"
    /\ completed = CompletionOrder
    /\ \A s \in 1..Len(Evaluations) : QueriesOfStep(s) # {}

\* A token with its 'rs' prefix taken off.
StripRsPrefix(token) ==
    IF Len(token) >= 2 /\ token[1] = "r" /\ token[2] = "s"
    THEN SubSeq(token, 3, Len(token)) ELSE token

\* The line of a VCF file is a header line.
IsHeaderLine(cols) == Len(cols[1]) > 0 /\ cols[1][1] = "#"

\* Column n of the non-header lines of a VCF file, 'rs' taken off.
IdsOfVcf(f) == {StripRsPrefix(f[i][3]) : i \in {j \in 1..Len(f) : ~IsHeaderLine(f[j])}}

\* The IDs of the five release files: column 3 of the non-header lines of
\* the active, merged and multimap files, columns 1 and 2 of the
\* merged-deprecated file, the lines of the deprecated file.
ExtractedIds(rel) ==
    IdsOfVcf(rel.active) \cup IdsOfVcf(rel.merged) \cup IdsOfVcf(rel.multimap)
    \cup {StripRsPrefix(rel.merged_deprecated[i][1]) : i \in 1..Len(rel.merged_deprecated)}
    \cup {StripRsPrefix(rel.merged_deprecated[i][2]) : i \in 1..Len(rel.merged_deprecated)}
    \cup {StripRsPrefix(rel.deprecated[i][1]) : i \in 1..Len(rel.deprecated)}

\* The release-side set of this run has been built.
ReleaseSetBuilt == pc = "diff" \/ DiffComputed

\* C14: the unique-IDs file lists no ID twice and its lines are the IDs of
\* the five release files, in a first run and in a run that finds the files
\* of an earlier run.
C14_ReleaseSetIsUnion ==
    ReleaseSetBuilt =>
        /\ LinesOf(fs["unique_ids"]) = ExtractedIds(release)
        /\ Len(fs["unique_ids"]) = Cardinality(LinesOf(fs["unique_ids"]))

\* C14 witness: a second run that found the files of the first, on release
\* files that list an ID in several files and twice in one.
C14_Witness ==
    /\ pc = "diff"
    /\ \E o \in previous : o.fs["unique_ids"] # <<>> /\ o.fs["all_ids"] # <<>>
    /\ Len(release.merged) = 2
    /\ release.merged[1] = release.merged[2]
    /\ IdsOfVcf(release.merged) \cap IdsOfVcf(release.active) # {}
    /\ release.merged_deprecated # <<>>
    /\ release.deprecated # <<>>
    /\ Len(fs["all_ids"]) > Len(fs["unique_ids"])

\* C15: from the start of attribution on, the residual is a subset of the
\* initial missing set, and no step of the run adds an ID or a line to it.
C15_ResidualNeverGrows ==
    /\ [](step >= 1 =>
            /\ ResidualSet \subseteq MissingSet
            /\ Len(fs["rs_still_missing"]) <= Len(fs["missing_ids"]))
    /\ [][step >= 1 =>
            /\ LinesOf(fs'["rs_still_missing"]) \subseteq LinesOf(fs["rs_still_missing"])
            /\ Len(fs'["rs_still_missing"]) <= Len(fs["rs_still_missing"])]_vars

\* C15 witness: after a category step the residual is smaller than the
\* missing set and not empty.
C15_Witness ==
    /\ pc = "eval_open"
    /\ step >= 2
    /\ ResidualSet # {}
    /\ ResidualSet # MissingSet
    /\ Matched(Evaluations[step - 1].category) # {}

\* The files of the report: the missing set, the matched set of each
\* category, the residual.
ReportFiles == {"missing_ids", "rs_still_missing"} \cup CategoryFiles

\* No step of a run failed on the store or on the port forwarding.
NoExternalError(errors) == \A e \in errors : e.kind = "Exception"

\* C16: a second run on the same release files and the same store, started
\* on the files the first run left, ends with the same missing set, the same
\* matched set of every category, the same residual and the same outcome as
\* the first, when the store answered every query of both runs.
C16_RerunSameReport ==
    \A o \in previous :
        (pc = "exited" /\ NoExternalError(raised) /\ NoExternalError(o.raised)) =>
            /\ \A f \in ReportFiles : fs[f] = o.fs[f]
            /\ raised = o.raised
            /\ loggedSuccess = o.loggedSuccess
            /\ exitStatus = o.exitStatus
            /\ completed = o.completed

\* C16 witness: two complete runs that matched an ID and left another.
C16_Witness ==
    /\ pc = "exited"
    /\ completed = CompletionOrder
    /\ \E o \in previous : o.completed = CompletionOrder /\ o.fs["unique_ids"] # <<>>
    /\ Matched("rs_with_merged_ss_parents") # {}
    /\ ResidualSet # {}
    /\ ResidualSet # MissingSet

\* C17 (as claimed): a run whose diff gave an empty missing set ends as
\* Reported, a success (success logged, nothing raised, exit status 0), with
\* no attribution query issued and every matched set empty.
C17_EmptyDiffIsReported ==
    (pc = "exited" /\ DiffComputed /\ MissingSet = {}) =>
        /\ queries = <<>>
        /\ \A c \in CategoryFiles : Matched(c) = {}
        /\ loggedSuccess
        /\ raised = {}
        /\ exitStatus = {0}

\* The pipeline state a position of the program belongs to: Initialized
\* (1, 2), the store universe built (3), SetsBuilt (4), DiffComputed (5),
\* Attributing (6, 7), Verified (8), the end of the run (9 to 12).
PipelineRank ==
    CASE pc = "open_port" -> 1
      [] pc = "export" -> 2
      [] pc = "generate" -> 3
      [] pc = "diff" -> 4
      [] pc = "attribute" -> 5
      [] pc \in {"eval_open", "read_batch", "query", "residual"} -> 6
      [] pc = "concat" -> 7
      [] pc = "count" -> 8
      [] pc = "except" -> 9
      [] pc = "finally" -> 10
      [] pc = "finally_exit" -> 11
      [] OTHER -> 12

\* The two universe files hold the export of the store and the IDs of the
\* release files.
UniversesBuilt ==
    /\ fs["mongo_unique_rs_ids"] = export_unique_rs_ids_from_mongo(store, <<>>)
    /\ fs["unique_ids"] = Uniq(Sort(AllIdsFile(release)))

\* The missing file holds the diff of the two universe files.
MissingIsDiff ==
    fs["missing_ids"] =
        diff_release_ids_against_mongo_rs_ids(fs["unique_ids"], fs["mongo_unique_rs_ids"])

\* C18: the universes are built before the diff, the diff is computed before
\* attribution and before any query, the verdict is given only after the
\* last category, and no step takes the run back to an earlier state.
C18_PipelineOrder ==
    /\ [](/\ pc = "diff" => UniversesBuilt
          /\ (pc = "attribute" \/ step >= 1) => (UniversesBuilt /\ MissingIsDiff)
          /\ queries # <<>> => (step >= 1 /\ UniversesBuilt /\ MissingIsDiff)
          /\ (loggedSuccess \/ \E e \in raised : e.kind = "Exception")
                => (completed = CompletionOrder /\ PipelineRank >= 9))
    /\ [][PipelineRank' >= PipelineRank /\ step' >= step]_vars

\* C18 witness: a run that went through every state to a verdict, with
\* universes that are not empty and queries issued.
C18_Witness ==
    /\ pc = "exited"
    /\ \E e \in raised : e.kind = "Exception"
    /\ queries # <<>>
    /\ fs["unique_ids"] # <<>>
    /\ fs["mongo_unique_rs_ids"] # <<>>
    /\ Matched("rs_with_merged_ss_parents") # {}

\* The lines an identifier set of the model can hold.
IdLineUniverse == {Str(i) : i \in IDs}

\* C19: the diff of an identifier set against itself is empty, for every
\* set of the model and in every run whose two universe files are equal.
C19_DiffOfSelfIsEmpty ==
    /\ \A S \in SUBSET IdLineUniverse :
          diff_release_ids_against_mongo_rs_ids(FileOfSet(S), FileOfSet(S)) = <<>>
    /\ (DiffComputed /\ fs["unique_ids"] = fs["mongo_unique_rs_ids"]) =>
          fs["missing_ids"] = <<>>

\* C19 witness: the diff was run on two equal universe files of several IDs.
C19_Witness ==
    /\ pc = "attribute"
    /\ fs["unique_ids"] = fs["mongo_unique_rs_ids"]
    /\ Len(fs["unique_ids"]) >= 2
    /\ fs["missing_ids"] = <<>>

\* C20 (as claimed): once the step of a category is over, the residual
\* holds no ID of that category's matched set; at the end of the run it
\* holds no ID matched by any of the four categories.
C20_ResidualExcludesMatched ==
    /\ \A k \in 1..3 : step > k => ResidualSet \cap Matched(Evaluations[k].category) = {}
    /\ AllEvaluated => \A c \in CategoryFiles : ResidualSet \cap Matched(c) = {}

\* C21 (as claimed): every ID an evaluation has written to its output file
\* is an ID of the residual file it reads its candidates from.
C21_MatchedAreCandidates ==
    pc \in {"read_batch", "query"} =>
        LinesOf(fs[Evaluations[step].category]) \subseteq LinesOf(fs["rs_still_missing"])

\* The output files of the categories evaluated before evaluation number s
\* (the SVE and SVOE evaluations belong to one category).
EarlierCategoryFiles(s) ==
    {Evaluations[k].category : k \in {j \in 1..3 : j < s}}

\* C22: while a category is evaluated, the residual file it reads its
\* candidates from, and the ID list of every query it issues, hold no ID of
\* the matched set of a category evaluated earlier.
C22_FirstMatchWins ==
    Evaluating =>
        \A c \in EarlierCategoryFiles(step) :
            /\ ResidualSet \cap Matched(c) = {}
            /\ \A i \in QueriesOfStep(step) : \A j \in 1..Len(queries[i].ids) :
                  Str(queries[i].ids[j]) \notin Matched(c)

\* C22 witness: a later category queries the store for what is left after
\* an earlier category matched an ID of the missing set.
C22_Witness ==
    /\ pc = "read_batch"
    /\ step >= 2
    /\ QueriesOfStep(step) # {}
    /\ \E c \in EarlierCategoryFiles(step) : Matched(c) \cap MissingSet # {}

\* The batches evaluation number s has read so far, in order (each batch is
\* taken from the query on the first collection).
IsFirstQueryOfBatch(q, s) == q.step = s /\ q.collection = Evaluations[s].collections[1]

RECURSIVE BatchesOf(_, _)
BatchesOf(qs, s) ==
    IF qs = <<>> THEN <<>>
    ELSE IF IsFirstQueryOfBatch(qs[1], s)
         THEN <<qs[1].batch>> \o BatchesOf(Tail(qs), s)
         ELSE BatchesOf(Tail(qs), s)

\* The lines of a sequence of batches, one batch after the other.
RECURSIVE Flatten(_)
Flatten(batches) ==
    IF batches = <<>> THEN <<>> ELSE batches[1] \o Flatten(Tail(batches))

ExportedAccessions ==
    UNION {{AccessionField(r) : r \in store[ExportedCollections[i]]} :
             i \in 1..Len(ExportedCollections)}

\* The export of the store has been written.
ExportDone == pc = "generate" \/ ReleaseSetBuilt

\* C24 (as claimed): the store universe file lists the accession of every
\* record of the four exported collections, each once.
C24_ExportHoldsAllCollections ==
    ExportDone =>
        /\ LinesOf(fs["mongo_unique_rs_ids"]) = ExportedAccessions
        /\ Len(fs["mongo_unique_rs_ids"]) = Cardinality(ExportedAccessions)

\* C25: once the non-nucleotide category is evaluated, its output file
\* lists, each once, the IDs of the SVE output file and of the SVOE output
\* file; both evaluations read the same candidates, the residual file as the
\* tandem-repeat step left it, and each output file holds what its query
\* gives on all of these candidates.
C25_NonNucleotideIsUnion ==
    AllEvaluated =>
        LET sve == fs["rs_with_non_nucleotide_letters_SVE"]
            svoe == fs["rs_with_non_nucleotide_letters_SVOE"]
            final == fs["rs_with_non_nucleotide_letters"]
        IN /\ LinesOf(final) = LinesOf(sve) \cup LinesOf(svoe)
           /\ Len(final) = Cardinality(LinesOf(final))
           /\ Flatten(BatchesOf(queries, 4)) = fs["rs_still_missing"]
           /\ Flatten(BatchesOf(queries, 5)) = fs["rs_still_missing"]
           /\ LinesOf(sve) = UnboundedQueryLines(Evaluations[4])
           /\ LinesOf(svoe) = UnboundedQueryLines(Evaluations[5])

\* C25 witness: the SVE query and the SVOE query matched the same ID, which
\* the SVOE query still had among its candidates.
C25_Witness ==
    /\ AllEvaluated
    /\ LinesOf(fs["rs_with_non_nucleotide_letters_SVE"])
          \cap LinesOf(fs["rs_with_non_nucleotide_letters_SVOE"]) # {}
    /\ Len(fs["rs_with_non_nucleotide_letters"]) = 1

\* C26: the ID list of every query issued, and of the pipeline about to be
\* issued, is the list of the IDs of the batch being processed, which is a
\* batch of the residual file of the evaluation.
C26_InListIsCurrentBatch ==
    /\ \A i \in 1..Len(queries) :
          /\ queries[i].ids = BatchIds(queries[i].batch)
          /\ Len(queries[i].ids) <= num_lines_to_read
    /\ pc = "query" =>
          /\ inLists[Evaluations[step].query] = BatchIds(batch)
          /\ batch = SubSeq(fs["rs_still_missing"], handlePos - Len(batch) + 1, handlePos)

\* C26 witness: a later category has queried the store for its second
\* batch, after the pipelines were given other ID lists.
C26_Witness ==
    /\ pc = "read_batch"
    /\ step >= 2
    /\ Len(BatchesOf(queries, step)) >= 2
    /\ inLists[get_merged_ss_query] # <<>>
    /\ \E i \in QueriesOfStep(step) : \E j \in QueriesOfStep(step) :
          queries[i].ids # queries[j].ids

\* A file holds a line that is no non-empty string of decimal digits.
HasNonNumericLine(f) == \E i \in 1..Len(f) : ~IsNumericLine(f[i])

\* C27: from the diff on, every line of the missing file and of the
\* residual file is a non-empty string of decimal digits, and the integer
\* conversion of the candidates never raises.
C27_CandidatesAreNumeric ==
    /\ DiffComputed => ~HasNonNumericLine(fs["missing_ids"])
    /\ step >= 1 => ~HasNonNumericLine(fs["rs_still_missing"])
    /\ \A e \in raised : e.kind # "ValueError"

\* C27 witness: candidates were converted and queried in a run whose two
\* universe files both hold a non-numeric line.
C27_Witness ==
    /\ pc = "query"
    /\ HasNonNumericLine(fs["mongo_unique_rs_ids"])
    /\ HasNonNumericLine(fs["unique_ids"])
    /\ LinesOf(fs["mongo_unique_rs_ids"]) \ LinesOf(fs["unique_ids"]) # MissingSet

\* open_mongo_port_to_tempmongo has returned: the port forward is open.
PortOpened == locals.port_forwarding_process_id # {}

\* C28: close_mongo_port_to_tempmongo is never called twice; a run that
\* opened the port forward has called it exactly once when it logs its exit
\* code and when it exits, whatever happened in between, and calls it in the
\* finally block only.
C28_PortClosedOnce ==
    /\ closeCalls <= 1
    /\ (PortOpened /\ pc \in {"finally_exit", "exited"}) => closeCalls = 1
    /\ (PortOpened /\ exitStatus # {}) => closeCalls = 1
    /\ closeCalls = 1 => (PortOpened /\ pc \in {"finally_exit", "exited"})

\* C28 witness: a run that opened the port and failed on a store query has
\* exited.
C28_Witness ==
    /\ pc = "exited"
    /\ PortOpened
    /\ StoreQueryFailed
    /\ closeCalls = 1

(* ------------------------------------------------------------------ *)
(* publish_release_files_to_ftp                                        *)
(* ------------------------------------------------------------------ *)

\* The validation program's variables, which the other programs leave alone.
validationVars ==
    <<store, release, previous, fs, pc, loopVars, endVars>>

unmapped_ids_file_regex == "*_unmapped_ids.txt.gz"

\* The tuple of species-level files copy_unmapped_files copies with cp.  The
\* glob pattern stands for the one file of the folder that matches it.
species_level_files_to_copy ==
    <<unmapped_ids_file_regex, "md5checksums.txt", "README_unmapped_rs_ids_count.txt">>

SpeciesLevelFiles == {species_level_files_to_copy[i] : i \in 1..Len(species_level_files_to_copy)}

\* The three species folders of a run: the staging release folder of the
\* species, and its folders under the public current and previous releases.
species_staging_release_folder_path == "staging"
species_current_release_folder_path == "public_current"
species_previous_release_folder_path == "public_previous"

SpeciesFolders ==
    {species_staging_release_folder_path, species_current_release_folder_path,
     species_previous_release_folder_path}

\* A folder maps each species-level file name to where its content comes
\* from, "absent" when the folder has no such file.
EmptyFolder == [f \in SpeciesLevelFiles |-> "absent"]

FoldersHolding(content) == [SpeciesLevelFiles -> {"absent", content}]

\* release_version of the run, and of the release before it.
release_version == 2

\* Rows of the release inventory table for the species: the query selects
\* the rows of the current and of the previous release version.
InventoryRow(accession, version, released) ==
    [assembly_accession |-> accession, release_version |-> version,
     should_be_released |-> released, num_rs_to_release |-> IF released THEN 1 ELSE 0]

UnmappedRows ==
    {<<>>, <<InventoryRow("Unmapped", release_version, TRUE)>>,
     <<InventoryRow("Unmapped", release_version - 1, TRUE)>>}

AssemblyRows ==
    {<<>>, <<InventoryRow("GCA_1", release_version, TRUE)>>,
     <<InventoryRow("GCA_1", release_version, FALSE)>>}

Inventories == {u \o a : u \in UnmappedRows, a \in AssemblyRows}

\* glob.glob(folder/unmapped_ids_file_regex): the matching files of a folder.
GlobUnmapped(folders, folder) ==
    IF folders[folder][unmapped_ids_file_regex] = "absent" THEN {} ELSE {unmapped_ids_file_regex}

\* cp src/filename dest: fails when the source file does not exist, and when
\* source and destination are the same file; otherwise dest holds a copy.
Cp(folders, src, filename, dest) ==
    IF folders[src][filename] = "absent" \/ src = dest
    THEN [folders |-> folders, failed |-> TRUE]
    ELSE [folders |-> [folders EXCEPT ![dest][filename] = folders[src][filename]],
          failed |-> FALSE]

\* The cp loop of copy_unmapped_files; a failing command raises and ends it.
RECURSIVE CopyLoop(_, _, _, _)
CopyLoop(folders, source, dest, i) ==
    IF i > Len(species_level_files_to_copy) THEN [folders |-> folders, failed |-> FALSE]
    ELSE LET r == Cp(folders, source, species_level_files_to_copy[i], dest)
         IN  IF r.failed THEN r ELSE CopyLoop(r.folders, source, dest, i + 1)

copy_unmapped_files(folders, source_folder_to_copy_from, dest, copy_from_current_release) ==
    IF copy_from_current_release
    THEN CopyLoop(folders, source_folder_to_copy_from, dest, 1)
    ELSE IF GlobUnmapped(folders, source_folder_to_copy_from) = {}
         THEN [folders |-> folders, failed |-> TRUE]
         ELSE [folders |->
                  [folders EXCEPT ![dest] =
                      [f \in SpeciesLevelFiles |->
                          IF f = unmapped_ids_file_regex
                          THEN folders[source_folder_to_copy_from][f]
                          ELSE "computed"]],
               failed |-> FALSE]

publish_species_level_files_to_ftp(folders) ==
    LET copy_from_current_release ==
            Cardinality(GlobUnmapped(folders, species_staging_release_folder_path)) > 0
        source_folder_to_copy_from ==
            IF copy_from_current_release
            THEN species_current_release_folder_path
            ELSE species_previous_release_folder_path
    IN  copy_unmapped_files(folders, source_folder_to_copy_from,
                            species_current_release_folder_path, copy_from_current_release)

\* rm -rf folder && mkdir folder.
create_species_folder(folders) ==
    [folders EXCEPT ![species_current_release_folder_path] = EmptyFolder]

RowsOfVersion(rows, version) == SelectSeq(rows, LAMBDA r : r.release_version = version)

get_release_assemblies_for_release_version(assemblies_to_process, version) ==
    RowsOfVersion(assemblies_to_process, version)

species_has_unmapped_data(assemblies_to_process) ==
    "Unmapped" \in {assemblies_to_process[i].assembly_accession :
                        i \in 1..Len(assemblies_to_process)}

\* What a run of publish_release_files_to_ftp starts from.
PublishInputs ==
    {[pc |-> "start",
      assemblies_to_process |-> inv,
      folders |-> [d \in SpeciesFolders |->
                      IF d = species_staging_release_folder_path THEN st
                      ELSE IF d = species_previous_release_folder_path THEN pr
                      ELSE cu],
      links |-> {},
      assembly_in_staging |-> as,
      previous_assembly_folder |-> pa,
      i |-> 0] :
        inv \in Inventories, st \in FoldersHolding("staging"),
        pr \in FoldersHolding("previous"),
        cu \in {EmptyFolder, [f \in SpeciesLevelFiles |-> "stale"]},
        as \in BOOLEAN, pa \in BOOLEAN}

InitPublish ==
    /\ InitValidation
    /\ store = StoreOf({}, {}, {})
    /\ release = EmptyRelease
    /\ linear = LinearIdle
    /\ ftp \in PublishInputs

\* create_requisite_folders and publish_release_top_level_files_to_ftp: the
\* by_species and by_assembly folders and the release-level files, none of
\* them inside a species folder.
PublishTopLevel ==
    /\ ftp.pc = "start"
    /\ ftp' = [ftp EXCEPT !.pc = "inventory"]
    /\ UNCHANGED <<validationVars, linear>>

\* get_release_assemblies_info_for_taxonomy raises when the inventory has no
\* row for the species.
ReadInventory ==
    /\ ftp.pc = "inventory"
    /\ ftp' = [ftp EXCEPT !.pc = IF Len(ftp.assemblies_to_process) = 0
                                 THEN "failed" ELSE "create_species_folder"]
    /\ UNCHANGED <<validationVars, linear>>

\* get_current_release_folder_for_taxonomy and create_species_folder: with no
\* row of the current release the folder name is None and joining the path
\* raises; otherwise the public species folder is emptied and recreated.
CreateSpeciesFolder ==
    /\ ftp.pc = "create_species_folder"
    /\ IF Len(RowsOfVersion(ftp.assemblies_to_process, release_version)) = 0
       THEN ftp' = [ftp EXCEPT !.pc = "failed"]
       ELSE ftp' = [ftp EXCEPT
                !.folders = create_species_folder(@),
                !.links = {},
                !.pc = IF species_has_unmapped_data(ftp.assemblies_to_process)
                       THEN "species_files" ELSE "assemblies",
                !.i = 1]
    /\ UNCHANGED <<validationVars, linear>>

PublishSpeciesLevelFiles ==
    /\ ftp.pc = "species_files"
    /\ LET r == publish_species_level_files_to_ftp(ftp.folders)
       IN  ftp' = [ftp EXCEPT !.folders = r.folders,
                              !.pc = IF r.failed THEN "failed" ELSE "assemblies"]
    /\ UNCHANGED <<validationVars, linear>>

\* One pass of the assembly loop: the Unmapped row is skipped; an assembly
\* processed in this release is copied from staging, any other is
\* hard-linked from the previous release, and the species folder gets a
\* symlink to the assembly folder.
PublishAssembly ==
    /\ ftp.pc = "assemblies"
    /\ LET rows == get_release_assemblies_for_release_version(ftp.assemblies_to_process,
                                                             release_version)
       IN  /\ ftp.i <= Len(rows)
           /\ LET row == rows[ftp.i]
                  copied == row.should_be_released /\ row.num_rs_to_release > 0
                  failed == IF copied THEN ~ftp.assembly_in_staging
                            ELSE ~ftp.previous_assembly_folder
              IN  IF row.assembly_accession = "Unmapped"
                  THEN ftp' = [ftp EXCEPT !.i = @ + 1]
                  ELSE IF failed
                  THEN ftp' = [ftp EXCEPT !.pc = "failed"]
                  ELSE ftp' = [ftp EXCEPT !.links = @ \cup {row.assembly_accession},
                                          !.i = @ + 1]
    /\ UNCHANGED <<validationVars, linear>>

\* create_assembly_name_symlinks on the species folder ends the run; it adds
\* symlinks only.
PublishEnd ==
    /\ ftp.pc = "assemblies"
    /\ ftp.i > Len(get_release_assemblies_for_release_version(ftp.assemblies_to_process,
                                                              release_version))
    /\ ftp' = [ftp EXCEPT !.pc = "done"]
    /\ UNCHANGED <<validationVars, linear>>

NextPublish ==
    \/ PublishTopLevel
    \/ ReadInventory
    \/ CreateSpeciesFolder
    \/ PublishSpeciesLevelFiles
    \/ PublishAssembly
    \/ PublishEnd

SpecPublish == InitPublish /\ [][NextPublish]_vars

\* publish_release_files_to_ftp has returned or raised.
PublishEnded == ftp.pc \in {"done", "failed"}

\* The species' staging release folder holds an unmapped-IDs file.
StagingHoldsUnmapped ==
    GlobUnmapped(ftp.folders, species_staging_release_folder_path) # {}

\* C29: when the species has unmapped data and its staging release folder
\* holds an unmapped-IDs file, a run of publish_release_files_to_ftp ends
\* with that file, copied from the staging folder, in the species' public
\* current-release folder.
C29_UnmappedFilePublished ==
    (/\ PublishEnded
     /\ species_has_unmapped_data(ftp.assemblies_to_process)
     /\ Len(RowsOfVersion(ftp.assemblies_to_process, release_version)) > 0
     /\ StagingHoldsUnmapped)
        => ftp.folders[species_current_release_folder_path][unmapped_ids_file_regex] = "staging"

(* ------------------------------------------------------------------ *)
(* cluster_from_mongo                                                  *)
(* ------------------------------------------------------------------ *)

\* The assemblies a species can have in the clustering tracking table.
AssemblyPool == {"GCA_1", "GCA_2", "GCA_3"}

\* The assembly lists the tracking query can return: one row per assembly
\* of the taxonomy and release version, in any order, possibly none.
AssemblyLists ==
    {l \in UNION {[1..n -> AssemblyPool] : n \in 0..Cardinality(AssemblyPool)} :
        \A i \in DOMAIN l : \A j \in DOMAIN l : l[i] = l[j] => i = j}

\* status_update_template filled in with a status.
status_update_template(assembly, status) ==
    [program |-> "update_clustering_status.py", arguments |-> <<assembly, status>>]

\* properties_path, the file create_properties_file wrote for the assembly.
properties_path(assembly) == <<"properties", assembly>>

\* A NextFlowProcess; a name such as start_<assembly> is the pair of its
\* prefix and the assembly.
NextFlowProcess(prefix, assembly, command_to_run) ==
    [process_name |-> <<prefix, assembly>>, command_to_run |-> command_to_run]

\* The process that runs the clustering jar on the assembly.
ClusterProcess(assembly) ==
    NextFlowProcess("cluster_", assembly,
                    [program |-> "clustering_jar",
                     arguments |-> <<properties_path(assembly)>>])

\* The loop body with the cluster process added before the start process.
ProcessesOf_ClusterFirst(assembly) ==
    << ClusterProcess(assembly),
       NextFlowProcess("start_", assembly, status_update_template(assembly, "Started")),
       NextFlowProcess("end_", assembly, status_update_template(assembly, "Completed")) >>

\* The three processes one pass of the loop adds to the pipeline.
ProcessesOf(assembly) ==
    << NextFlowProcess("start_", assembly, status_update_template(assembly, "Started")),
       ClusterProcess(assembly),
       NextFlowProcess("end_", assembly, status_update_template(assembly, "Completed")) >>

\* generate_linear_pipeline: the process list of the LinearNextFlowPipeline,
\* each process depending on the one added before it.
RECURSIVE generate_linear_pipeline(_)
generate_linear_pipeline(assembly_list) ==
    IF assembly_list = <<>> THEN <<>>
    ELSE ProcessesOf(Head(assembly_list)) \o generate_linear_pipeline(Tail(assembly_list))

\* What a run of cluster_multiple_from_mongo starts from: status holds, per
\* assembly, the statuses this run has set; jobs the clustering jobs it ran.
ClusterInputs ==
    {[pc |-> "start", assembly_list |-> l, pipeline |-> <<>>, next |-> 0,
      status |-> [a \in AssemblyPool |-> <<>>], jobs |-> <<>>] : l \in AssemblyLists}

InitCluster ==
    /\ InitValidation
    /\ store = StoreOf({}, {}, {})
    /\ release = EmptyRelease
    /\ ftp = FtpIdle
    /\ linear \in ClusterInputs

\* get_assemblies_and_scientific_name_from_taxonomy raises when the query
\* has no result; otherwise the pipeline is generated.
GeneratePipeline ==
    /\ linear.pc = "start"
    /\ IF Len(linear.assembly_list) = 0
       THEN linear' = [linear EXCEPT !.pc = "failed"]
       ELSE linear' = [linear EXCEPT
                !.pipeline = generate_linear_pipeline(linear.assembly_list),
                !.next = 1,
                !.pc = "run"]
    /\ UNCHANGED <<validationVars, ftp>>

\* run_pipeline: the next process of the linear pipeline runs and succeeds.
RunProcess ==
    /\ linear.pc = "run"
    /\ linear.next <= Len(linear.pipeline)
    /\ LET command == linear.pipeline[linear.next].command_to_run
       IN  IF command.program = "update_clustering_status.py"
           THEN linear' = [linear EXCEPT
                    !.status[command.arguments[1]] = Append(@, command.arguments[2]),
                    !.next = @ + 1]
           ELSE linear' = [linear EXCEPT
                    !.jobs = Append(@, command.arguments[1][2]),
                    !.next = @ + 1]
    /\ UNCHANGED <<validationVars, ftp>>

\* run_pipeline: the next process fails; the processes after it do not run
\* and the program exits with status 1.
ProcessFails ==
    /\ linear.pc = "run"
    /\ linear.next <= Len(linear.pipeline)
    /\ linear' = [linear EXCEPT !.pc = "failed"]
    /\ UNCHANGED <<validationVars, ftp>>

\* run_pipeline returns after the last process; the program exits with 0.
PipelineEnd ==
    /\ linear.pc = "run"
    /\ linear.next > Len(linear.pipeline)
    /\ linear' = [linear EXCEPT !.pc = "done"]
    /\ UNCHANGED <<validationVars, ftp>>

NextCluster ==
    \/ GeneratePipeline
    \/ RunProcess
    \/ ProcessFails
    \/ PipelineEnd

SpecCluster == InitCluster /\ [][NextCluster]_vars

\* The pipeline has been generated.
PipelineGenerated == linear.pc \in {"run", "done"} \/ (linear.pc = "failed" /\ linear.next > 0)

InSeq(x, s) == \E i \in DOMAIN s : s[i] = x

StatusSet(assembly, status) == InSeq(status, linear.status[assembly])

JobRan(assembly) == InSeq(assembly, linear.jobs)

\* C30: the generated pipeline holds, for each assembly in list order,
\* exactly the three processes start_<assembly> (status Started),
\* cluster_<assembly> and end_<assembly> (status Completed), in that order;
\* and at every point of an execution a clustering job has run only after
\* its assembly's status was set to Started, a status is Completed only
\* after the assembly's clustering job ran, and anything done for an
\* assembly comes after everything of the assemblies before it in the list.
C30_LinearOrder ==
    PipelineGenerated =>
        LET l == linear.assembly_list
            p == linear.pipeline
        IN  /\ Len(p) = 3 * Len(l)
            /\ \A k \in DOMAIN l :
                /\ p[3 * k - 2].process_name = <<"start_", l[k]>>
                /\ p[3 * k - 2].command_to_run = status_update_template(l[k], "Started")
                /\ p[3 * k - 1].process_name = <<"cluster_", l[k]>>
                /\ p[3 * k - 1].command_to_run.program = "clustering_jar"
                /\ p[3 * k].process_name = <<"end_", l[k]>>
                /\ p[3 * k].command_to_run = status_update_template(l[k], "Completed")
            /\ \A a \in AssemblyPool :
                /\ JobRan(a) => StatusSet(a, "Started")
                /\ StatusSet(a, "Completed") => JobRan(a)
                /\ Len(linear.status[a]) <= 2
            /\ \A k \in DOMAIN l : \A m \in DOMAIN l :
                (k < m /\ linear.status[l[m]] # <<>>)
                    => (linear.status[l[k]] = <<"Started", "Completed">> /\ JobRan(l[k]))

\* C30 witness: the pipeline of two or more assemblies has run to its end.
C30_Witness ==
    /\ linear.pc = "done"
    /\ Len(linear.assembly_list) >= 2
    /\ \A k \in DOMAIN linear.assembly_list : JobRan(linear.assembly_list[k])

====
